---------------------------- MODULE Spec2Model ----------------------------
(***************************************************************************)
(* Model of the text-to-SQL pipeline of src/final/backend.py: the PII      *)
(* filter (pii_filter_input, redact_result_data), the four graph nodes     *)
(* (generate_sql_node, check_sql_node, execute_sql_node,                   *)
(* generate_answer_node) and the routing function should_retry.            *)
(*                                                                         *)
(* Texts are sequences of lexemes.  A lexeme is a single character ("a",   *)
(* "_", "@", ".", " ", "[", ...) or a run of word characters that is kept  *)
(* whole ("EMAIL", "SELECT", "DROP", "sql", ...); "<fence>" stands for the *)
(* three backquotes of a code fence.  The strings the code searches for    *)
(* (emails, placeholders, the redaction tag, fences, DROP, DELETE,         *)
(* CORRECT) are sequences of whole lexemes, and in the texts of the model  *)
(* none of them can begin or end inside a whole-word lexeme, so substring  *)
(* search, str.replace and the regular expressions act on lexeme sequences *)
(* as they act on the character strings.                                   *)
(*                                                                         *)
(* The model and the store are outside the repository: the model returns   *)
(* any of a few completions or its call raises; the store returns any of a *)
(* few result sets or raises, and always raises on the empty statement.    *)
(***************************************************************************)
EXTENDS Integers, Sequences, FiniteSets, TLC

VARIABLES
  pc,            \* the node of the graph that runs next, "END", or "raised"
  state,         \* the AgentState of the run: a dict from keys to values
  inputs,        \* the dict the caller passed to app_graph.invoke
  llm_messages,  \* contents of the messages of the latest llm.invoke
  n_llm,         \* number of llm.invoke calls of the run
  n_generate,    \* number of generate_sql steps of the run
  n_execute,     \* number of execute_sql steps of the run
  n_exec_ok,     \* number of execute_sql steps that did not raise
  last_exc,      \* str(e) of the latest exception caught in execute_sql_node
  last_step,     \* what the latest step did
  gen_messages,  \* contents of the messages of the latest generate_sql_node
  last_executable_sql,  \* executable_sql of the latest execute_sql_node
  last_conn,     \* <<conn>> for the frame its pd.read_sql_query returned, <<>> if it raised
  runs,          \* two runs in one process: for each its next node and AgentState
  solo,          \* each of the two run on its own, given the same responses
  arg,           \* arguments of a call of a pure function
  ret            \* its progress and results

vars == <<pc, state, inputs, llm_messages, n_llm, n_generate, n_execute,
          n_exec_ok, last_exc, last_step, gen_messages, last_executable_sql,
          last_conn, runs, solo, arg, ret>>

run_vars == <<pc, state, inputs, llm_messages, n_llm, n_generate, n_execute,
              n_exec_ok, last_exc, last_step, gen_messages,
              last_executable_sql, last_conn>>

pipe_vars == <<run_vars, runs, solo>>

-----------------------------------------------------------------------------
(* Python values *)

\* Python's None, among values that are otherwise lexeme sequences
None == <<"None">>

\* truth value of an optional string: None and "" are false
Truthy(v) == v # None /\ v # <<>>

\* dict.get(key, default) on a dict modelled as a function on its keys
Get(d, key, default) == IF key \in DOMAIN d THEN d[key] ELSE default

\* the channel update of the graph: the keys a node returns overwrite the state
Merge(d, upd) ==
  [k \in DOMAIN d \cup DOMAIN upd |-> IF k \in DOMAIN upd THEN upd[k] ELSE d[k]]

Max(S) == CHOOSE x \in S : \A y \in S : y <= x

Min(S) == CHOOSE x \in S : \A y \in S : x <= y

-----------------------------------------------------------------------------
(* str operations *)

\* old occurs in t at index i (1-based)
OccursAt(t, old, i) ==
  /\ i >= 1
  /\ i + Len(old) - 1 <= Len(t)
  /\ \A k \in 1..Len(old) : t[i + k - 1] = old[k]

\* Python's "old in t"
Contains(t, old) == \E i \in 1..(Len(t) + 1) : OccursAt(t, old, i)

\* t.replace(old, new) scanning from index i: leftmost, non-overlapping
RECURSIVE ReplaceFrom(_, _, _, _)
ReplaceFrom(t, old, new, i) ==
  IF old = <<>>
  THEN IF i > Len(t) THEN new ELSE new \o <<t[i]>> \o ReplaceFrom(t, old, new, i + 1)
  ELSE IF i > Len(t) THEN <<>>
  ELSE IF OccursAt(t, old, i) THEN new \o ReplaceFrom(t, old, new, i + Len(old))
  ELSE <<t[i]>> \o ReplaceFrom(t, old, new, i + 1)

\* str.replace(old, new)
Replace(t, old, new) == ReplaceFrom(t, old, new, 1)

IsSpace(c) == c \in {" ", "\n"}

\* str.strip()
Strip(t) ==
  LET keep == {i \in 1..Len(t) : ~IsSpace(t[i])}
  IN IF keep = {} THEN <<>> ELSE SubSeq(t, Min(keep), Max(keep))

\* upper case of one lexeme
UpperLexeme(c) ==
  CASE c = "a" -> "A"
    [] c = "b" -> "B"
    [] c = "sql" -> "SQL"
    [] c = "err" -> "ERR"
    [] c \in {"drop", "Drop"} -> "DROP"
    [] c \in {"delete", "Delete"} -> "DELETE"
    [] c \in {"correct", "Correct"} -> "CORRECT"
    [] OTHER -> c

\* str.upper()
Upper(t) == [i \in 1..Len(t) |-> UpperLexeme(t[i])]

-----------------------------------------------------------------------------
(* the regular expression  [\w\.-]+@[\w\.-]+\.\w+  *)

NonWord == {" ", "\n", "@", ".", "-", "[", "]", "(", ")", "<fence>", "'", ":", ",", "=", "*"}

\* \w
IsWord(c) == c \notin NonWord

\* [\w\.-]
IsEmailChar(c) == IsWord(c) \/ c \in {".", "-"}

\* last index of the run of email characters that starts at i (i-1: no run)
EmailRunEnd(t, i) ==
  Min({k \in i..(Len(t) + 1) : k = Len(t) + 1 \/ ~IsEmailChar(t[k])}) - 1

\* last index of the run of word characters that starts at i
WordRunEnd(t, i) ==
  Min({k \in i..(Len(t) + 1) : k = Len(t) + 1 \/ ~IsWord(t[k])}) - 1

\* re.match of the pattern at index i: the index of the last lexeme matched,
\* 0 when there is no match.  The local part is the whole run up to "@"; the
\* greedy domain backtracks to the last "." of its run that a word follows.
email_pattern(t, i) ==
  IF i > Len(t) \/ ~IsEmailChar(t[i]) THEN 0
  ELSE LET at == EmailRunEnd(t, i) + 1
       IN IF at > Len(t) \/ t[at] # "@" THEN 0
          ELSE LET domEnd == EmailRunEnd(t, at + 1)
                   dots == {d \in (at + 2)..(domEnd - 1) :
                              t[d] = "." /\ IsWord(t[d + 1])}
               IN IF dots = {} THEN 0 ELSE WordRunEnd(t, Max(dots) + 1)

\* re.findall(email_pattern, t) from index i: left to right, non-overlapping
RECURSIVE FindAllFrom(_, _)
FindAllFrom(t, i) ==
  IF i > Len(t) THEN <<>>
  ELSE IF email_pattern(t, i) = 0 THEN FindAllFrom(t, i + 1)
  ELSE <<SubSeq(t, i, email_pattern(t, i))>> \o FindAllFrom(t, email_pattern(t, i) + 1)

findall(t) == FindAllFrom(t, 1)

-----------------------------------------------------------------------------
(* pii_filter_input and redact_result_data *)

\* a placeholder that ignores the index of the match
Placeholder_sameForAll(n) == <<"_", "_", "EMAIL", "_", "1", "_", "_">>

\* f"__EMAIL_{n}__"
Placeholder(n) == <<"_", "_", "EMAIL", "_", ToString(n), "_", "_">>

\* "[EMAIL_REDACTED]"
RedactTag == <<"[", "EMAIL", "_", "REDACTED", "]">>

\* pii_map[key] = value on an insertion-ordered dict, kept as a sequence of
\* entries [placeholder, real_value]
DictSet(m, key, value) ==
  IF \E j \in 1..Len(m) : m[j].placeholder = key
  THEN [j \in 1..Len(m) |->
          IF m[j].placeholder = key THEN [placeholder |-> key, real_value |-> value]
          ELSE m[j]]
  ELSE Append(m, [placeholder |-> key, real_value |-> value])

\* the loop of pii_filter_input from the i-th match on
RECURSIVE FilterLoop(_, _, _, _)
FilterLoop(emails, i, sanitized_text, pii_map) ==
  IF i > Len(emails) THEN [sanitized |-> sanitized_text, pii_map |-> pii_map]
  ELSE FilterLoop(emails, i + 1,
                  Replace(sanitized_text, emails[i], Placeholder(i)),
                  DictSet(pii_map, Placeholder(i), emails[i]))

pii_filter_input(text) == FilterLoop(findall(text), 1, text, <<>>)

\* a redaction loop that searches for the placeholder, not the real value
RECURSIVE RedactLoop_searchesKey(_, _, _)
RedactLoop_searchesKey(data_str, pii_map, i) ==
  IF i > Len(pii_map) THEN data_str
  ELSE RedactLoop_searchesKey(Replace(data_str, pii_map[i].placeholder, RedactTag),
                              pii_map, i + 1)

\* the loop of redact_result_data from the i-th entry on
RECURSIVE RedactLoop(_, _, _)
RedactLoop(data_str, pii_map, i) ==
  IF i > Len(pii_map) THEN data_str
  ELSE RedactLoop(Replace(data_str, pii_map[i].real_value, RedactTag), pii_map, i + 1)

redact_result_data(data_str, pii_map) ==
  IF pii_map = <<>> THEN data_str ELSE RedactLoop(data_str, pii_map, 1)

\* the swap loop of execute_sql_node: placeholders back to real values
RECURSIVE SwapLoop(_, _, _)
SwapLoop(executable_sql, pii_map, i) ==
  IF i > Len(pii_map) THEN executable_sql
  ELSE SwapLoop(Replace(executable_sql, pii_map[i].placeholder, pii_map[i].real_value),
                pii_map, i + 1)

Rehydrate(sql, pii_map) == SwapLoop(sql, pii_map, 1)

\* the real values of a map
RealValues(pii_map) == {pii_map[j].real_value : j \in 1..Len(pii_map)}

\* some real value of the map occurs in the text
Leaks(t, pii_map) == \E v \in RealValues(pii_map) : Contains(t, v)

-----------------------------------------------------------------------------
(* input texts *)

EmailA == <<"a", "@", "a", ".", "a">>

EmailB == <<"b", "@", "a", ".", "a">>

AtDomain == <<"@", "a", ".", "a">>

Fragments ==
  {<<"a">>, <<"_">>, <<" ">>, AtDomain, EmailA, EmailB, Placeholder(1), Placeholder(2)}

\* the texts made of at most n fragments
RECURSIVE Concats(_)
Concats(n) ==
  IF n = 0 THEN {<<>>}
  ELSE LET shorter == Concats(n - 1)
       IN shorter \cup {t \o f : t \in shorter, f \in Fragments}

MaxParts == 4

Texts == Concats(MaxParts)

-----------------------------------------------------------------------------
(* the collaborators: schema, language model, relational store *)

\* db.get_table_info()
Schema == <<"customers", "(", "email", ")">>

\* raw completions the model may give to the synthesis prompt
GenResponses ==
  { <<"<fence>", "sql", "\n", "SELECT", "\n", "<fence>">>,
    <<"SELECT", " ">> \o Placeholder(1),
    <<"drop">> }

\* raw completions the model may give to the validation prompt
CheckResponses ==
  { <<"CORRECT">>,
    <<"<fence>", "sql", "\n", "DROP", "\n", "<fence>", " ", "fixed">>,
    <<"<fence>", "sql", " ", "SELECT">>,
    <<" ", "DELETE", "\n">> }

\* raw completions the model may give to the answer prompt
AnswerResponses ==
  { <<"a">>,
    <<"a", " ">> \o Placeholder(1),
    <<"a", " ">> \o EmailA,
    Placeholder(2) \o Placeholder(1) \o Placeholder(1),
    <<"_", "_", "EMAIL", "_">> \o Placeholder(1) \o <<"1", "_", "_">> }

\* result sets the store may return: named columns and rows of cells
Frames ==
  { [columns |-> << <<"a">>, <<"b">> >>, rows |-> <<>>],
    [columns |-> << <<"a">> >>, rows |-> << << <<"1">> >> >>],
    [columns |-> << <<"email">>, <<"b">> >>,
     rows |-> << <<EmailA, <<"1">> >>, <<EmailB, <<"2">> >> >>],
    [columns |-> << <<"a">>, <<"b">>, <<"c">> >>,
     rows |-> << << <<"1">>, <<"2">>, <<"3">> >> >>] }

\* str.join
RECURSIVE Join(_, _)
Join(parts, sep) ==
  IF parts = <<>> THEN <<>>
  ELSE IF Len(parts) = 1 THEN parts[1]
  ELSE parts[1] \o sep \o Join(Tail(parts), sep)

\* str(conn) of a DataFrame: a header line, then one line per row led by its
\* index; the empty frame prints its column list
FrameStr(df) ==
  IF df.rows = <<>>
  THEN <<"Empty", " ", "DataFrame", "\n", "Columns", ":", " ", "[">>
         \o Join(df.columns, <<",", " ">>) \o <<"]">>
  ELSE Join(<<Join(df.columns, <<" ">>)>>
              \o [r \in 1..Len(df.rows) |->
                    <<ToString(r - 1), " ">> \o Join(df.rows[r], <<" ">>)],
            <<"\n">>)

\* str(e) of the exceptions pd.read_sql_query may raise for a statement: an
\* error of the result object, or a driver error that quotes the statement
ExcMessages(executable_sql) ==
  { <<"ResourceClosedError">>,
    <<"(", "OperationalError", ")", " ", "[", "SQL", ":", " ">> \o executable_sql \o <<"]">> }

\* the empty statement returns no rows: reading its result raises
StoreRaises(executable_sql) ==
  IF executable_sql = <<>> THEN {<<"ResourceClosedError">>} ELSE ExcMessages(executable_sql)

StoreReturns(executable_sql) == IF executable_sql = <<>> THEN {} ELSE Frames

-----------------------------------------------------------------------------
(* the nodes of the graph *)

MaxRetries == 3

\* the lexeme "<fence>" stands for the three backquotes of a code fence
FenceOpen == <<"<fence>", "sql">>

FenceClose == <<"<fence>">>

\* the messages generate_sql_node sends
GenerateMessages(sanitized) ==
  << <<"Schema", ":", " ">> \o Schema
       \o <<"\n", "placeholders", " ", "like", " ", "'">> \o Placeholder(1)
       \o <<"'", "\n", "Output", " ", "ONLY", " ", "the", " ", "SQL">>,
     <<"User", " ", "Question", ":", " ">> \o sanitized >>

\* a generator that starts the retry budget afresh on every attempt
generate_sql_node_resetsRetry(st, response) ==
  LET f == pii_filter_input(st.question)
      sql == Strip(Replace(Replace(response, FenceOpen, <<>>), FenceClose, <<>>))
  IN [sql_query |-> sql,
      sanitized_question |-> f.sanitized,
      pii_map |-> f.pii_map,
      retry_count |-> 0]

\* a generator that filters the question it sanitized before, once there is one
generate_sql_node_refilters(st, response) ==
  LET f == pii_filter_input(Get(st, "sanitized_question", st.question))
      sql == Strip(Replace(Replace(response, FenceOpen, <<>>), FenceClose, <<>>))
  IN [sql_query |-> sql,
      sanitized_question |-> f.sanitized,
      pii_map |-> f.pii_map,
      retry_count |-> Get(st, "retry_count", 0)]

\* generate_sql_node: the update it returns for a completion of the model
generate_sql_node(st, response) ==
  LET f == pii_filter_input(st.question)
      sql == Strip(Replace(Replace(response, FenceOpen, <<>>), FenceClose, <<>>))
  IN [sql_query |-> sql,
      sanitized_question |-> f.sanitized,
      pii_map |-> f.pii_map,
      retry_count |-> Get(st, "retry_count", 0)]

\* a denylist test that forgets to fold the case
UnsafeQuery_caseSensitive(sql) ==
  Contains(sql, <<"DROP">>) \/ Contains(sql, <<"DELETE">>)

\* "DROP" in sql.upper() or "DELETE" in sql.upper()
UnsafeQuery(sql) ==
  Contains(Upper(sql), <<"DROP">>) \/ Contains(Upper(sql), <<"DELETE">>)

UnsafeMessage == <<"Unsafe", " ", "query", " ", "detected", ".">>

\* a block that reports the query but leaves it in the state
UnsafeUpdate_keepsQuery == [error |-> UnsafeMessage]

\* the update check_sql_node returns for a query on the denylist
UnsafeUpdate == [error |-> UnsafeMessage, sql_query |-> <<>>]

\* the message check_sql_node sends
CheckMessages(sql) ==
  << <<"Verify", " ", "schema", ":", " ">> \o Schema
       \o <<"\n", "Query", ":", " ">> \o sql
       \o <<"\n", "If", " ", "correct", ",", " ", "output", " ", "CORRECT">> >>

\* re.search of <fence>sql(.*?)<fence> in res_text with re.DOTALL: group 1 of the first
\* match, None when the pattern does not match
FencedBlock(res_text) ==
  LET opens == {i \in 1..Len(res_text) : OccursAt(res_text, FenceOpen, i)}
  IN IF opens = {} THEN None
     ELSE LET i == Min(opens)
              closes == {j \in (i + 2)..Len(res_text) : res_text[j] = "<fence>"}
          IN IF closes = {} THEN None
             ELSE SubSeq(res_text, i + 2, Min(closes) - 1)

\* a validator that looks for a fenced block before it looks for the token
check_sql_node_fenceFirst(st, response) ==
  LET res_text == Strip(response)
  IN IF Contains(res_text, FenceOpen) /\ FencedBlock(res_text) # None
     THEN [sql_query |-> Strip(FencedBlock(res_text)), error |-> None]
     ELSE IF Contains(Upper(res_text), <<"CORRECT">>) THEN [error |-> None]
     ELSE [sql_query |-> Strip(Replace(Replace(res_text, FenceOpen, <<>>), FenceClose, <<>>)),
           error |-> None]

\* a validator that leaves the error of an earlier attempt when it affirms
check_sql_node_affirmKeepsError(st, response) ==
  LET res_text == Strip(response)
  IN IF Contains(Upper(res_text), <<"CORRECT">>) THEN [error |-> Get(st, "error", None)]
     ELSE IF Contains(res_text, FenceOpen) /\ FencedBlock(res_text) # None
     THEN [sql_query |-> Strip(FencedBlock(res_text)), error |-> None]
     ELSE [sql_query |-> Strip(Replace(Replace(res_text, FenceOpen, <<>>), FenceClose, <<>>)),
           error |-> None]

\* check_sql_node after the denylist test: the update for a completion
check_sql_node(st, response) ==
  LET res_text == Strip(response)
  IN IF Contains(Upper(res_text), <<"CORRECT">>) THEN [error |-> None]
     ELSE IF Contains(res_text, FenceOpen) /\ FencedBlock(res_text) # None
     THEN [sql_query |-> Strip(FencedBlock(res_text)), error |-> None]
     ELSE [sql_query |-> Strip(Replace(Replace(res_text, FenceOpen, <<>>), FenceClose, <<>>)),
           error |-> None]

\* chart data whose values are read from column 0 as well
ChartData_valuesFromColumn0(conn) ==
  IF conn.rows # <<>> /\ Len(conn.columns) >= 2
  THEN [labels |-> [r \in 1..Len(conn.rows) |-> conn.rows[r][1]],
        values |-> [r \in 1..Len(conn.rows) |-> conn.rows[r][1]],
        columns |-> conn.columns]
  ELSE <<>>

\* chart data that names the two charted columns only
ChartData_twoColumnNames(conn) ==
  IF conn.rows # <<>> /\ Len(conn.columns) >= 2
  THEN [labels |-> [r \in 1..Len(conn.rows) |-> conn.rows[r][1]],
        values |-> [r \in 1..Len(conn.rows) |-> conn.rows[r][2]],
        columns |-> SubSeq(conn.columns, 1, 2)]
  ELSE <<>>

\* the chart data execute_sql_node derives from a result set
ChartData(conn) ==
  IF conn.rows # <<>> /\ Len(conn.columns) >= 2
  THEN [labels |-> [r \in 1..Len(conn.rows) |-> conn.rows[r][1]],
        values |-> [r \in 1..Len(conn.rows) |-> conn.rows[r][2]],
        columns |-> conn.columns]
  ELSE <<>>

\* routing that retries while the budget lasts, error or not
should_retry_retriesOnSuccess(st) ==
  IF st.retry_count < MaxRetries THEN "generate_sql" ELSE "generate_answer"

\* routing that allows one retry too many
should_retry_offByOne(st) ==
  IF Truthy(Get(st, "error", None)) /\ st.retry_count <= MaxRetries
  THEN "generate_sql" ELSE "generate_answer"

\* should_retry: the node that follows execute_sql
should_retry(st) ==
  IF Truthy(Get(st, "error", None)) /\ st.retry_count < MaxRetries
  THEN "generate_sql" ELSE "generate_answer"

\* the prompt generate_answer_node sends
AnswerMessages(st) ==
  << <<"User", " ", "Question", ":", " ">> \o st.sanitized_question
       \o <<"\n", "SQL", " ", "Query", ":", " ">> \o st.sql_query
       \o <<"\n", "Data", " ", "Retrieved", ":", " ">> \o st.query_result
       \o <<"\n", "confirm", " ", "it", " ", "using", " ", "'">> \o RedactTag \o <<"'">> >>

\* a clean-up loop that looks for the real values instead of the keys
RECURSIVE ScrubLoop_searchesValue(_, _, _)
ScrubLoop_searchesValue(final_text, pii_map, i) ==
  IF i > Len(pii_map) THEN final_text
  ELSE ScrubLoop_searchesValue(Replace(final_text, pii_map[i].real_value, RedactTag),
                               pii_map, i + 1)

\* the clean-up loop of generate_answer_node from the i-th key on
RECURSIVE ScrubLoop(_, _, _)
ScrubLoop(final_text, pii_map, i) ==
  IF i > Len(pii_map) THEN final_text
  ELSE ScrubLoop(Replace(final_text, pii_map[i].placeholder, RedactTag), pii_map, i + 1)

\* f"Error: {state['error']}"
ErrorAnswer(error) == <<"Error", ":", " ">> \o error

-----------------------------------------------------------------------------
(* one run of app_graph.invoke(inputs) *)

Questions ==
  { <<"a">>,
    EmailA,
    EmailA \o <<" ">> \o EmailB,
    <<"_">> \o AtDomain \o AtDomain }

\* how far a retry_count supplied by the caller may lie outside 0..MaxRetries
InitRetrySkew == 2

InitRetryCounts == (0 - InitRetrySkew)..(MaxRetries + InitRetrySkew)

Init ==
  /\ inputs \in {[question |-> q] : q \in Questions}
                  \cup {[question |-> q, retry_count |-> r] :
                          q \in Questions, r \in InitRetryCounts}
  /\ state = inputs
  /\ pc = "generate_sql"
  /\ llm_messages = <<>>
  /\ n_llm = 0
  /\ n_generate = 0
  /\ n_execute = 0
  /\ n_exec_ok = 0
  /\ last_exc = None
  /\ last_step = "invoke"
  /\ gen_messages = None
  /\ last_executable_sql = None
  /\ last_conn = <<>>
  /\ runs = <<>>
  /\ solo = <<>>
  /\ arg = <<>>
  /\ ret = <<>>

\* llm.invoke raises: nothing catches it, the exception leaves app_graph.invoke
LlmRaises(messages) ==
  /\ llm_messages' = messages
  /\ n_llm' = n_llm + 1
  /\ pc' = "raised"
  /\ last_step' = "llm_raised"
  /\ UNCHANGED state

GenerateSQL ==
  /\ pc = "generate_sql"
  /\ n_generate' = n_generate + 1
  /\ LET messages == GenerateMessages(pii_filter_input(state.question).sanitized)
     IN /\ gen_messages' = messages
        /\ \/ LlmRaises(messages)
           \/ \E response \in GenResponses :
                /\ llm_messages' = messages
                /\ n_llm' = n_llm + 1
                /\ state' = Merge(state, generate_sql_node(state, response))
                /\ pc' = "check_sql"
                /\ last_step' = "generated"
  /\ UNCHANGED <<inputs, n_execute, n_exec_ok, last_exc, last_executable_sql,
                 last_conn, runs, solo, arg, ret>>

CheckSQL ==
  /\ pc = "check_sql"
  /\ IF UnsafeQuery(state.sql_query)
     THEN /\ state' = Merge(state, UnsafeUpdate)
          /\ pc' = "execute_sql"
          /\ last_step' = "check_blocked"
          /\ UNCHANGED <<llm_messages, n_llm>>
     ELSE LET messages == CheckMessages(state.sql_query)
          IN \/ LlmRaises(messages)
             \/ \E response \in CheckResponses :
                  /\ llm_messages' = messages
                  /\ n_llm' = n_llm + 1
                  /\ state' = Merge(state, check_sql_node(state, response))
                  /\ pc' = "execute_sql"
                  /\ last_step' = "checked"
  /\ UNCHANGED <<inputs, n_generate, n_execute, n_exec_ok, last_exc, gen_messages,
                 last_executable_sql, last_conn, runs, solo, arg, ret>>

ExecuteSQL ==
  /\ pc = "execute_sql"
  /\ n_execute' = n_execute + 1
  /\ LET pii_map == Get(state, "pii_map", <<>>)
         executable_sql == Rehydrate(state.sql_query, pii_map)
     IN /\ last_executable_sql' = executable_sql
        /\ \/ \E conn \in StoreReturns(executable_sql) :
                /\ state' = Merge(state,
                     [query_result |-> redact_result_data(FrameStr(conn), pii_map),
                      chart_data |-> ChartData(conn)])
                /\ n_exec_ok' = n_exec_ok + 1
                /\ last_conn' = <<conn>>
                /\ last_step' = "executed"
                /\ UNCHANGED last_exc
           \/ \E e \in StoreRaises(executable_sql) :
                /\ state' = Merge(state, [error |-> e, retry_count |-> state.retry_count + 1])
                /\ last_exc' = e
                /\ last_conn' = <<>>
                /\ last_step' = "execute_failed"
                /\ UNCHANGED n_exec_ok
  /\ pc' = should_retry(state')
  /\ UNCHANGED <<inputs, llm_messages, n_llm, n_generate, gen_messages, runs, solo,
                 arg, ret>>

ComposeAnswer ==
  /\ pc = "generate_answer"
  /\ IF Truthy(Get(state, "error", None))
     THEN /\ state' = Merge(state, [final_answer |-> ErrorAnswer(state.error)])
          /\ pc' = "END"
          /\ last_step' = "answered_error"
          /\ UNCHANGED <<llm_messages, n_llm>>
     ELSE IF "query_result" \notin DOMAIN state
     THEN /\ pc' = "raised"
          /\ last_step' = "key_error"
          /\ UNCHANGED <<state, llm_messages, n_llm>>
     ELSE LET messages == AnswerMessages(state)
          IN \/ LlmRaises(messages)
             \/ \E response \in AnswerResponses :
                  /\ llm_messages' = messages
                  /\ n_llm' = n_llm + 1
                  /\ state' = Merge(state,
                       [final_answer |-> ScrubLoop(response, Get(state, "pii_map", <<>>), 1)])
                  /\ pc' = "END"
                  /\ last_step' = "answered"
  /\ UNCHANGED <<inputs, n_generate, n_execute, n_exec_ok, last_exc, gen_messages,
                 last_executable_sql, last_conn, runs, solo, arg, ret>>

Next == GenerateSQL \/ CheckSQL \/ ExecuteSQL \/ ComposeAnswer

Spec == Init /\ [][Next]_vars

-----------------------------------------------------------------------------
(* properties of a run *)

\* the placeholder map of the run, empty before generate_sql_node stored it
RunMap == Get(state, "pii_map", <<>>)

\* a text holds the word DROP or DELETE in some letter case
HasDropOrDelete(t) == \E i \in 1..Len(t) : UpperLexeme(t[i]) \in {"DROP", "DELETE"}

\* the caller passed retry_count = 0 and no execute_sql step has succeeded
FromZeroAllFailed ==
  /\ "retry_count" \in DOMAIN inputs
  /\ inputs.retry_count = 0
  /\ n_exec_ok = 0

\* C1 as stated: such a run enters answer composition after exactly 4
\* execution attempts.
C1_FourAttempts ==
  (FromZeroAllFailed /\ pc \in {"generate_answer", "END"}) => n_execute = 4

C1_Bounded ==
  FromZeroAllFailed =>
    /\ n_execute <= 3
    /\ n_execute = 3 => pc \in {"generate_answer", "END"}
    /\ pc \in {"generate_answer", "END"} =>
         n_execute = 3 /\ Truthy(last_exc) /\ state.error = last_exc
    /\ pc = "END" => state.final_answer = ErrorAnswer(last_exc)

\* C1 amended: in a run started with retry_count = 0 whose execute_sql steps
\* all fail, there are never more than 3 execution attempts (the first and 2
\* retries); the 3rd is followed by generate_answer and not by another
\* generate_sql; answer composition is entered only after exactly 3 attempts,
\* with the error of the last attempt in the state, and its only step leads
\* to END with that error as the final answer.
C1_RetryBound ==
  /\ []C1_Bounded
  /\ [][(FromZeroAllFailed /\ pc = "generate_answer") =>
          /\ pc' = "END"
          /\ n_execute' = 3
          /\ state'.final_answer = ErrorAnswer(last_exc)]_vars

\* a run from retry_count = 0 ended after 3 failed attempts with the last error
C1_Witness ==
  /\ pc = "END"
  /\ FromZeroAllFailed
  /\ n_execute = 3
  /\ n_generate = 3
  /\ state.retry_count = 3
  /\ state.final_answer = ErrorAnswer(last_exc)

\* C2: whenever execute_sql is about to run, the query check_sql handed over
\* holds neither DROP nor DELETE in any letter case.
C2_NoDestructiveToExecutor ==
  pc = "execute_sql" => ~HasDropOrDelete(state.sql_query)

\* C3: the final answer of a run, composed from the model's answer or from
\* the error, holds no real value of the placeholder map.
C3_FinalAnswerNoRealValue ==
  "final_answer" \in DOMAIN state => ~Leaks(state.final_answer, RunMap)

\* C4: neither the sanitized question nor any message sent to the model
\* holds a real value of the placeholder map.
C4_NoRealValueToModel ==
  /\ "sanitized_question" \in DOMAIN state => ~Leaks(state.sanitized_question, RunMap)
  /\ \A k \in 1..Len(llm_messages) : ~Leaks(llm_messages[k], RunMap)

\* C5: no exception leaves the run, and a run that ended has a final answer,
\* which starts with the error prefix when an error is set.
C5_AlwaysFinalAnswer ==
  /\ pc # "raised"
  /\ pc = "END" =>
       /\ "final_answer" \in DOMAIN state
       /\ Truthy(Get(state, "error", None)) => OccursAt(state.final_answer, <<"Error", ":">>, 1)

\* C6: a run takes at most 4 generate_sql steps and at most 4 execute_sql
\* steps and stops nowhere but at END.
C6_BoundedWork ==
  /\ n_generate <= 4
  /\ n_execute <= 4
  /\ pc # "raised"

\* C7: a check_sql step on a query that holds DROP or DELETE in any letter
\* case calls the model not at all, empties sql_query, sets error, leaves
\* retry_count as it was and hands over to execute_sql.
C7_BlockedShortCircuit ==
  [][(pc = "check_sql" /\ HasDropOrDelete(state.sql_query)) =>
       /\ n_llm' = n_llm
       /\ llm_messages' = llm_messages
       /\ state'.sql_query = <<>>
       /\ Truthy(state'.error)
       /\ state'.retry_count = state.retry_count
       /\ pc' = "execute_sql"]_vars

\* check_sql blocked a lower-case drop of the synthesizer: one model call so far
C7_Witness ==
  /\ last_step = "check_blocked"
  /\ pc = "execute_sql"
  /\ state.sql_query = <<>>
  /\ Truthy(state.error)
  /\ n_llm = 1

\* C11: after an execute_sql step that did not raise, chart_data is the
\* empty dict when the result has 0 rows or fewer than 2 columns; for a
\* result of at least 1 row and at least 2 columns its labels are the
\* column-0 cells and its values the column-1 cells, one per row, in row order.
C11_ChartProjection ==
  last_conn # <<>> =>
    LET conn == last_conn[1]
        nrows == Len(conn.rows)
        ncols == Len(conn.columns)
    IN /\ (nrows = 0 \/ ncols < 2) => state.chart_data = <<>>
       /\ (nrows >= 1 /\ ncols >= 2) =>
            /\ Len(state.chart_data.labels) = nrows
            /\ Len(state.chart_data.values) = nrows
            /\ \A r \in 1..nrows :
                 /\ state.chart_data.labels[r] = conn.rows[r][1]
                 /\ state.chart_data.values[r] = conn.rows[r][2]

\* a result of 2 rows and 2 columns was charted: two labels, two values
C11_Witness ==
  /\ last_step = "executed"
  /\ Len(last_conn[1].rows) = 2
  /\ Len(last_conn[1].columns) = 2
  /\ state.chart_data.labels = <<EmailA, EmailB>>
  /\ state.chart_data.values = << <<"1">>, <<"2">> >>

\* retry_count as the run sees it: 0 until generate_sql_node stored one
RetryCount(st) == Get(st, "retry_count", 0)

\* the step is an execute_sql step whose pd.read_sql_query raised
ExecuteFails == pc = "execute_sql" /\ last_conn' = <<>>

\* the step is an execute_sql step whose pd.read_sql_query returned a frame
ExecuteSucceeds == pc = "execute_sql" /\ last_conn' # <<>>

C13_Bounded ==
  /\ RetryCount(state) <= Max({MaxRetries, RetryCount(inputs) + 1})
  /\ RetryCount(inputs) <= 2 => RetryCount(state) <= 3

C14_ErrorIffLastFailed ==
  /\ [][ExecuteSucceeds => /\ ~Truthy(Get(state', "error", None))
                           /\ pc' = "generate_answer"]_vars
  /\ [][(pc = "generate_answer" /\ last_conn # <<>>) =>
          /\ n_llm' = n_llm + 1
          /\ pc' = "END" => /\ ~Truthy(state'.error)
                            /\ ~OccursAt(state'.final_answer, <<"Error", ":", " ">>, 1)]_vars
  /\ [](pc = "END" =>
          /\ n_execute >= 1
          /\ last_conn = <<>> <=> (/\ Truthy(Get(state, "error", None))
                                   /\ state.final_answer = <<"Error", ":", " ">> \o state.error)
          /\ last_conn = <<>> => state.error = last_exc)

\* a run whose first attempt failed and whose second succeeded ended with the
\* answer of the model
C14_Witness ==
  /\ pc = "END"
  /\ n_execute >= 2
  /\ Truthy(last_exc)
  /\ last_conn # <<>>
  /\ state.error = None
  /\ ~OccursAt(state.final_answer, <<"Error", ":", " ">>, 1)

\* check_sql has just blocked the query: only the block sets this error, and
\* every other check_sql step overwrites it
JustBlocked == pc = "execute_sql" /\ Get(state, "error", None) = UnsafeMessage

\* C15: the execute_sql step that follows a blocking check_sql step fails and
\* raises retry_count by exactly 1; so whenever it leads back to generate_sql,
\* retry_count has grown.
C15_BlockedConsumesRetry ==
  [][JustBlocked =>
       /\ last_conn' = <<>>
       /\ n_exec_ok' = n_exec_ok
       /\ Truthy(state'.error)
       /\ state'.retry_count = state.retry_count + 1
       /\ pc' = "generate_sql" => state'.retry_count > state.retry_count]_vars

\* a blocked query failed at execution, cost the first retry and led back to
\* generate_sql
C15_Witness ==
  /\ last_step = "execute_failed"
  /\ state.sql_query = <<>>
  /\ state.retry_count = RetryCount(inputs) + 1
  /\ n_execute = 1
  /\ n_llm = 1
  /\ pc = "generate_sql"

\* C17: from the first generate_sql step on, no step changes question,
\* sanitized_question or pii_map, and every later generate_sql step sends the
\* messages the first one sent: the failed query and the error are not in them.
C17_RetriesRepeatFirstPrompt ==
  [][n_generate >= 1 =>
       /\ state'.question = state.question
       /\ Get(state', "sanitized_question", None) = Get(state, "sanitized_question", None)
       /\ Get(state', "pii_map", None) = Get(state, "pii_map", None)
       /\ pc = "generate_sql" => gen_messages' = gen_messages]_vars

\* the third generate_sql step of a run with an email in its question, after
\* two failed attempts
C17_Witness ==
  /\ last_step = "generated"
  /\ n_generate = 3
  /\ n_execute = 2
  /\ Truthy(state.error)
  /\ Len(state.pii_map) >= 1
  /\ state.sanitized_question # state.question

\* C18: the final answer generate_answer_node returns on its success path
\* holds no key of the placeholder map.
C18_NoPlaceholderInAnswer ==
  (pc = "END" /\ ~Truthy(Get(state, "error", None))) =>
    \A j \in 1..Len(RunMap) : ~Contains(state.final_answer, RunMap[j].placeholder)

\* the model answered with both placeholders of the run; the final answer
\* holds the tag in their place
C18_Witness ==
  /\ pc = "END"
  /\ ~Truthy(state.error)
  /\ Len(RunMap) = 2
  /\ state.final_answer = RedactTag \o RedactTag \o RedactTag

\* C19 as stated: the column names of a chart projection are exactly the
\* names of the first two columns of the result.
C19_FirstTwoColumnNames ==
  (last_conn # <<>> /\ state.chart_data # <<>>) =>
    state.chart_data.columns = SubSeq(last_conn[1].columns, 1, 2)

\* C19 amended: the column names of a chart projection are the names of all
\* columns of the result, in order; its first two entries are the names of
\* the charted columns 0 and 1.
C19_AllColumnNames ==
  (last_conn # <<>> /\ state.chart_data # <<>>) =>
    /\ state.chart_data.columns = last_conn[1].columns
    /\ Len(state.chart_data.columns) >= 2
    /\ state.chart_data.columns[1] = last_conn[1].columns[1]
    /\ state.chart_data.columns[2] = last_conn[1].columns[2]

\* a result of 3 columns was charted: 3 column names
C19_Witness ==
  /\ last_step = "executed"
  /\ Len(last_conn[1].columns) = 3
  /\ Len(state.chart_data.columns) = 3

\* the texts the state holds
StateTexts ==
  {state[k] : k \in DOMAIN state \ {"pii_map", "chart_data", "retry_count"}}

\* C20: execute_sql steps leave sql_query as it was, and the query with the
\* real values put back, where it differs from sql_query, is in no text of the
\* state.
C20_RehydratedStaysLocal ==
  /\ [][pc = "execute_sql" => state'.sql_query = state.sql_query]_vars
  /\ []((last_executable_sql # None /\ last_executable_sql # state.sql_query) =>
          \A t \in StateTexts : ~Contains(t, last_executable_sql))

\* the state holds a result of an execute_sql step
HasResult == "query_result" \in DOMAIN state \/ "chart_data" \in DOMAIN state

\* C21: at most one execute_sql step of a run succeeds; it is the last
\* execution step and generate_answer follows it directly.  So a run that
\* ends with an error set never wrote query_result or chart_data, and a
\* query_result or chart_data present at the end comes from the execution of
\* the final sql_query.
C21_OneSuccessLast ==
  /\ [](n_exec_ok <= 1)
  /\ [][ExecuteSucceeds => pc' = "generate_answer"]_vars
  /\ [][n_exec_ok = 1 => n_execute' = n_execute /\ pc # "generate_sql"]_vars
  /\ [](HasResult <=> n_exec_ok = 1)
  /\ []((pc = "END" /\ Truthy(Get(state, "error", None))) => (~HasResult /\ n_exec_ok = 0))
  /\ []((pc = "END" /\ HasResult) =>
          /\ last_conn # <<>>
          /\ last_executable_sql = Rehydrate(state.sql_query, RunMap)
          /\ state.query_result = redact_result_data(FrameStr(last_conn[1]), RunMap)
          /\ ~Truthy(state.error))

\* a run whose first two attempts failed ended after its third, successful
\* one, on a query that held a placeholder
C21_Witness ==
  /\ pc = "END"
  /\ n_execute = 3
  /\ n_exec_ok = 1
  /\ Truthy(last_exc)
  /\ HasResult
  /\ last_executable_sql # state.sql_query

-----------------------------------------------------------------------------
(* calls of pii_filter_input, followed by the swap loop of the executor *)

NoPipeline ==
  /\ pc = "none"
  /\ state = <<>>
  /\ inputs = <<>>
  /\ llm_messages = <<>>
  /\ n_llm = 0
  /\ n_generate = 0
  /\ n_execute = 0
  /\ n_exec_ok = 0
  /\ last_exc = None
  /\ last_step = "none"
  /\ gen_messages = None
  /\ last_executable_sql = None
  /\ last_conn = <<>>
  /\ runs = <<>>
  /\ solo = <<>>

FilterInit ==
  /\ NoPipeline
  /\ arg \in {[text |-> t] : t \in Texts}
  /\ ret = [at |-> "call"]

CallFilter ==
  /\ ret.at = "call"
  /\ LET r == pii_filter_input(arg.text)
     IN ret' = [at |-> "swap", sanitized |-> r.sanitized, pii_map |-> r.pii_map]
  /\ UNCHANGED <<arg, pipe_vars>>

CallSwap ==
  /\ ret.at = "swap"
  /\ ret' = [at |-> "done", sanitized |-> ret.sanitized, pii_map |-> ret.pii_map,
             swapped |-> Rehydrate(ret.sanitized, ret.pii_map)]
  /\ UNCHANGED <<arg, pipe_vars>>

FilterNext == CallFilter \/ CallSwap

FilterSpec == FilterInit /\ [][FilterNext]_vars

-----------------------------------------------------------------------------
(* calls of redact_result_data *)

MaxDataParts == 3

MaxMapLen == 2

\* email-shaped real values; EmailA is a substring of the last one
RealValueChoices == {EmailA, EmailB, <<"a">> \o EmailA}

\* the maps of exactly n entries, keyed as pii_filter_input keys them
RECURSIVE MapsOfLen(_)
MapsOfLen(n) ==
  IF n = 0 THEN {<<>>}
  ELSE {Append(m, [placeholder |-> Placeholder(n), real_value |-> v]) :
          m \in MapsOfLen(n - 1), v \in RealValueChoices}

PiiMaps == UNION {MapsOfLen(n) : n \in 0..MaxMapLen}

RedactInit ==
  /\ NoPipeline
  /\ arg \in {[data_str |-> t, pii_map |-> m] : t \in Concats(MaxDataParts), m \in PiiMaps}
  /\ ret = [at |-> "call"]

CallRedact ==
  /\ ret.at = "call"
  /\ ret' = [at |-> "done", redacted |-> redact_result_data(arg.data_str, arg.pii_map)]
  /\ UNCHANGED <<arg, pipe_vars>>

RedactNext == CallRedact

RedactSpec == RedactInit /\ [][RedactNext]_vars

-----------------------------------------------------------------------------
(* two runs of app_graph.invoke in one process, their nodes interleaved.  The *)
(* module-level objects both use (db, llm, app_graph) are assigned once, at   *)
(* import; a node reads the state it is passed and returns an update for it.  *)

RunIds == {"run_a", "run_b"}

\* the other of the two runs
Other(r) == CHOOSE o \in RunIds : o # r

\* the questions of the two runs hold different emails
PairInputs ==
  { [run_a |-> [question |-> EmailA, retry_count |-> 0], run_b |-> [question |-> q]] :
      q \in {EmailB, EmailB \o <<" ">> \o EmailA} }

\* the result sets and the answers of the model the two runs are given
PairFrames == {conn \in Frames : Len(conn.columns) = 2}

PairAnswerResponses == {response \in AnswerResponses : Len(response) = 2 + Len(Placeholder(1))}

\* a run after generate_sql_node
RunGenerate(run, response) ==
  [pc |-> "check_sql", state |-> Merge(run.state, generate_sql_node(run.state, response))]

\* a run after check_sql_node
RunCheck(run, response) ==
  [pc |-> "execute_sql",
   state |-> IF UnsafeQuery(run.state.sql_query)
             THEN Merge(run.state, UnsafeUpdate)
             ELSE Merge(run.state, check_sql_node(run.state, response))]

\* a run after an execute_sql_node whose pd.read_sql_query returned conn
RunExecuteReturns(run, conn) ==
  LET st == Merge(run.state,
               [query_result |-> redact_result_data(FrameStr(conn), Get(run.state, "pii_map", <<>>)),
                chart_data |-> ChartData(conn)])
  IN [pc |-> should_retry(st), state |-> st]

\* a run after an execute_sql_node whose pd.read_sql_query raised e
RunExecuteRaises(run, e) ==
  LET st == Merge(run.state, [error |-> e, retry_count |-> run.state.retry_count + 1])
  IN [pc |-> should_retry(st), state |-> st]

\* a run after generate_answer_node
RunAnswer(run, response) ==
  [pc |-> "END",
   state |-> IF Truthy(Get(run.state, "error", None))
             THEN Merge(run.state, [final_answer |-> ErrorAnswer(run.state.error)])
             ELSE Merge(run.state,
                    [final_answer |-> ScrubLoop(response, Get(run.state, "pii_map", <<>>), 1)])]

\* a run whose llm.invoke raised
RunRaised(run) == [pc |-> "raised", state |-> run.state]

PairInit ==
  /\ pc = "none"
  /\ state = <<>>
  /\ inputs = <<>>
  /\ llm_messages = <<>>
  /\ n_llm = 0
  /\ n_generate = 0
  /\ n_execute = 0
  /\ n_exec_ok = 0
  /\ last_exc = None
  /\ last_step = "none"
  /\ gen_messages = None
  /\ last_executable_sql = None
  /\ last_conn = <<>>
  /\ arg \in PairInputs
  /\ ret = <<>>
  /\ runs = [r \in RunIds |-> [pc |-> "generate_sql", state |-> arg[r]]]
  /\ solo = runs

\* run r takes the step to next; on its own, with the same response, it
\* takes the step to alone
PairStep(r, next, alone) ==
  /\ runs' = [runs EXCEPT ![r] = next]
  /\ solo' = [solo EXCEPT ![r] = alone]
  /\ UNCHANGED <<run_vars, arg, ret>>

\* a generator that keeps the placeholder map in a module-level dict, which a
\* second run finds filled
PairGenerate_moduleLevelMap(r) ==
  /\ runs[r].pc = "generate_sql"
  /\ \/ PairStep(r, RunRaised(runs[r]), RunRaised(solo[r]))
     \/ \E response \in GenResponses :
          LET own == RunGenerate(runs[r], response)
              seen == Get(runs[Other(r)].state, "pii_map", <<>>)
          IN PairStep(r,
                      [own EXCEPT !.state.pii_map = IF seen = <<>> THEN @ ELSE seen],
                      RunGenerate(solo[r], response))

PairGenerate(r) ==
  /\ runs[r].pc = "generate_sql"
  /\ \/ PairStep(r, RunRaised(runs[r]), RunRaised(solo[r]))
     \/ \E response \in GenResponses :
          PairStep(r, RunGenerate(runs[r], response), RunGenerate(solo[r], response))

PairCheck(r) ==
  /\ runs[r].pc = "check_sql"
  /\ \/ /\ ~UnsafeQuery(runs[r].state.sql_query)
        /\ PairStep(r, RunRaised(runs[r]), RunRaised(solo[r]))
     \/ \E response \in CheckResponses :
          PairStep(r, RunCheck(runs[r], response), RunCheck(solo[r], response))

PairExecute(r) ==
  /\ runs[r].pc = "execute_sql"
  /\ LET executable_sql == Rehydrate(runs[r].state.sql_query, Get(runs[r].state, "pii_map", <<>>))
     IN \/ \E conn \in StoreReturns(executable_sql) \cap PairFrames :
             PairStep(r, RunExecuteReturns(runs[r], conn), RunExecuteReturns(solo[r], conn))
        \/ \E e \in StoreRaises(executable_sql) :
             PairStep(r, RunExecuteRaises(runs[r], e), RunExecuteRaises(solo[r], e))

PairAnswer(r) ==
  /\ runs[r].pc = "generate_answer"
  /\ \/ /\ ~Truthy(Get(runs[r].state, "error", None))
        /\ PairStep(r, RunRaised(runs[r]), RunRaised(solo[r]))
     \/ \E response \in PairAnswerResponses :
          PairStep(r, RunAnswer(runs[r], response), RunAnswer(solo[r], response))

PairNext ==
  \E r \in RunIds : PairGenerate(r) \/ PairCheck(r) \/ PairExecute(r) \/ PairAnswer(r)

PairSpec == PairInit /\ [][PairNext]_vars

-----------------------------------------------------------------------------
(* calls of check_sql_node with a query that is not on the denylist *)

MaxCheckParts == 4

\* pieces of a completion of the validator: the token in lower case, the
\* word "Incorrect" (which holds the token), fence markers, a query word,
\* white space
CheckFragments ==
  { <<"correct">>, <<"In", "correct">>, FenceOpen, FenceClose,
    <<"SELECT">>, <<" ">>, <<"\n">> }

RECURSIVE CheckConcats(_)
CheckConcats(n) ==
  IF n = 0 THEN {<<>>}
  ELSE CheckConcats(n - 1) \cup {t \o f : t \in CheckConcats(n - 1), f \in CheckFragments}

\* states in which check_sql_node runs: a query of the synthesizer, and the
\* error of an earlier attempt or none
CheckStates ==
  { [question |-> <<"a">>, sanitized_question |-> <<"a">>, pii_map |-> <<>>,
     retry_count |-> 1, sql_query |-> <<"SELECT", " ", "a">>, error |-> e] :
      e \in {None, <<"ResourceClosedError">>} }

CheckInit ==
  /\ NoPipeline
  /\ arg \in {[st |-> st, response |-> t] : st \in CheckStates, t \in CheckConcats(MaxCheckParts)}
  /\ ret = [at |-> "call"]

CallCheck ==
  /\ ret.at = "call"
  /\ ~UnsafeQuery(arg.st.sql_query)
  /\ ret' = [at |-> "done", state |-> Merge(arg.st, check_sql_node(arg.st, arg.response))]
  /\ UNCHANGED <<arg, pipe_vars>>

CheckNext == CallCheck

CheckSpec == CheckInit /\ [][CheckNext]_vars

-----------------------------------------------------------------------------
(* properties of pii_filter_input *)

\* the distinct email-shaped substrings the pattern finds in a text
DistinctEmails(t) == {findall(t)[j] : j \in 1..Len(findall(t))}

\* C8: for a text with k distinct email-shaped substrings, pii_filter_input
\* returns a map of exactly k entries in which every distinct real value is
\* mapped by exactly one placeholder, and a sanitized text in which the
\* pattern finds no email any more; repeated emails included.
C8_TokenizeBijection ==
  ret.at = "swap" =>
    /\ Len(ret.pii_map) = Cardinality(DistinctEmails(arg.text))
    /\ \A v \in DistinctEmails(arg.text) :
         Cardinality({j \in 1..Len(ret.pii_map) : ret.pii_map[j].real_value = v}) = 1
    /\ findall(ret.sanitized) = <<>>

\* C9 as stated: for every text, the swap loop of the executor applied to
\* the sanitized text gives the original text back.
C9_RoundTripEveryText == ret.at = "done" => ret.swapped = arg.text

\* C9 amended: for every text without an underscore (hence without a
\* placeholder-shaped string or a fragment of one), the swap loop applied to
\* the sanitized text gives the original text back.
C9_RoundTripNoUnderscore ==
  (ret.at = "done" /\ ~Contains(arg.text, <<"_">>)) => ret.swapped = arg.text

\* an underscore-free text with two different emails, one inside the other,
\* was sanitized and swapped back
C9_Witness ==
  /\ ret.at = "done"
  /\ ~Contains(arg.text, <<"_">>)
  /\ Len(ret.pii_map) >= 2
  /\ ret.pii_map[1].real_value # ret.pii_map[2].real_value
  /\ Contains(ret.pii_map[2].real_value, ret.pii_map[1].real_value)
  /\ ret.sanitized # arg.text
  /\ ret.swapped = arg.text

-----------------------------------------------------------------------------
(* properties of redact_result_data *)

\* C10: the text redact_result_data returns contains no real value of the
\* map; the redaction tag stands where a real value was found, a text
\* without real values comes back unchanged, and so does every text under
\* the empty map.  Maps in which one value is a substring of another included.
C10_RedactRemovesRealValues ==
  ret.at = "done" =>
    /\ ~Leaks(ret.redacted, arg.pii_map)
    /\ Leaks(arg.data_str, arg.pii_map) => Contains(ret.redacted, RedactTag)
    /\ ~Leaks(arg.data_str, arg.pii_map) => ret.redacted = arg.data_str
    /\ arg.pii_map = <<>> => ret.redacted = arg.data_str

\* a text holding a real value and a longer real value that contains it was
\* redacted
C10_Witness ==
  /\ ret.at = "done"
  /\ Len(arg.pii_map) = 2
  /\ arg.pii_map[1].real_value # arg.pii_map[2].real_value
  /\ Contains(arg.pii_map[2].real_value, arg.pii_map[1].real_value)
  /\ Contains(arg.data_str, arg.pii_map[2].real_value)
  /\ ret.redacted # arg.data_str

-----------------------------------------------------------------------------
(* properties of check_sql_node *)

\* the completion without the white space around it
Trimmed == Strip(arg.response)

\* the completion holds the word CORRECT in some letter case
Affirms == \E k \in 1..Len(Trimmed) : UpperLexeme(Trimmed[k]) = "CORRECT"

\* a fence marker followed by sql starts at i
OpensAt(i) == i + 1 <= Len(Trimmed) /\ Trimmed[i] = "<fence>" /\ Trimmed[i + 1] = "sql"

\* i..j is the first fenced block: the first opening marker and the first
\* marker after it
FirstBlock(i, j) ==
  /\ OpensAt(i)
  /\ j >= i + 2
  /\ j <= Len(Trimmed)
  /\ Trimmed[j] = "<fence>"
  /\ \A k \in 1..(i - 1) : ~OpensAt(k)
  /\ \A k \in (i + 2)..(j - 1) : Trimmed[k] # "<fence>"

HasBlock == \E i, j \in 1..Len(Trimmed) : FirstBlock(i, j)

\* the completion without its fence markers: every marker dropped, and with
\* it the sql that follows an opening marker
RECURSIVE Unfenced(_, _)
Unfenced(t, k) ==
  IF k > Len(t) THEN <<>>
  ELSE IF t[k] = "<fence>" /\ k < Len(t) /\ t[k + 1] = "sql" THEN Unfenced(t, k + 2)
  ELSE IF t[k] = "<fence>" THEN Unfenced(t, k + 1)
  ELSE <<t[k]>> \o Unfenced(t, k + 1)

\* C16: for a query that is not blocked, a completion that holds the token
\* leaves sql_query as the synthesizer wrote it; otherwise a completion that
\* holds a fenced block makes the trimmed content of its first block the
\* query; otherwise the query is the completion without fence markers,
\* trimmed.  In all three cases error is None afterwards.
C16_ValidatorPriority ==
  ret.at = "done" =>
    /\ ret.state.error = None
    /\ Affirms => ret.state.sql_query = arg.st.sql_query
    /\ (~Affirms /\ HasBlock) =>
         \A i, j \in 1..Len(Trimmed) :
           FirstBlock(i, j) => ret.state.sql_query = Strip(SubSeq(Trimmed, i + 2, j - 1))
    /\ (~Affirms /\ ~HasBlock) => ret.state.sql_query = Strip(Unfenced(Trimmed, 1))

\* a completion with the token and a fenced query after a failed attempt: the
\* query stays, the error is cleared
C16_Witness ==
  /\ ret.at = "done"
  /\ Affirms
  /\ HasBlock
  /\ Contains(arg.response, <<"SELECT">>)
  /\ Truthy(arg.st.error)
  /\ ret.state.error = None
  /\ ret.state.sql_query = arg.st.sql_query

-----------------------------------------------------------------------------
(* properties of two interleaved runs *)

=============================================================================
